---- MODULE Spec2Model ----
(***************************************************************************)
(* The gencruit backend: signup and login over the users collection, the   *)
(* JWT auth middleware, the role middleware and the owner-scoped job       *)
(* routes.  Two versions of routes/auth.js and of routes/jobs.js are in    *)
(* the repository; a server runs one version of each:                      *)
(*   auth  "msg"    src/routes/auth.js 1-107  (signup answers {msg})       *)
(*   auth  "token"  src/unnamed/part_001      (signup answers {token,user})*)
(*   jobs  "gated"  src/routes/auth.js 109-327 (POST behind authorize)     *)
(*   jobs  "open"   src/routes/jobs.js        (POST behind auth only)      *)
(***************************************************************************)
EXTENDS Integers, Sequences, FiniteSets, Bags, TLC

VARIABLES
  authVersion, \* which routes/auth.js the server runs: "msg" or "token"
  jobsVersion, \* which routes/jobs.js the server runs: "gated" or "open"
  users,     \* the users collection, documents in insertion order
  pending,   \* signup requests suspended between User.findOne and newUser.save
  signedUp,  \* history: every user ever stored, the plaintext and role it was created with
  tokens,    \* tokens issued so far that clients still hold
  clock,     \* wall clock in seconds
  jobs,      \* the jobs collection
  editing,   \* PUT requests suspended between Job.findOne and job.save
  listing,   \* GET /api/jobs requests suspended between countDocuments and find
  seed,      \* scripts/seedUsers.js: where a run of the script is, and its hashed users
  seeding,   \* scripts/seedJobs.js: where a run of the script is, and the users it found
  last       \* the request that completed most recently and its response

vars ==
  <<authVersion, jobsVersion, users, pending, signedUp, tokens, clock, jobs, editing,
    listing, seed, seeding, last>>

----------------------------------------------------------------------------
(* Bounds of the model *)

MaxUsers == 2
MaxInflight == 2
MaxTokens == 2
MaxSkew == 1
MaxJobs == 2
MaxSeeds == 1
MaxListing == 1

(* Program constants *)

MinPasswordLength == 6
TokenTTL == 3600
MinDescriptionLength == 10
DefaultPage == 1
DefaultLimit == 10
SeedJobCount == 30
MinSeedSalary == 30000
MaxSeedSalary == 150000

Undefined == "undefined"

----------------------------------------------------------------------------
(* Values *)

Salts == {"salt1", "salt2"}
BcryptPrefix == "$2a$10$"

\* A password value is a sequence of strings: <<>> when the field is missing,
\* <<p>> for the plaintext p, and <<BcryptPrefix, salt>> \o v for the bcrypt
\* hash of the value v under salt.
Plain(p) == <<p>>
NoPassword == <<>>

BcryptHash(s, salt) == <<BcryptPrefix, salt>> \o s

IsBcryptHash(h) == Len(h) >= 3 /\ h[1] = BcryptPrefix

\* bcrypt.compare recomputes the hash of s under the salt kept in the hash.
BcryptCompare(s, h) == IsBcryptHash(h) /\ BcryptHash(s, h[2]) = h

\* String length of the password a request carries
PasswordLength(p) == IF p = <<>> THEN 0 ELSE Len(p[1])

\* String.prototype.toLowerCase on the addresses the requests carry
Lower(e) == IF e = "A@x.com" THEN "a@x.com" ELSE e

\* express-validator's checks
IsEmail(e) == e \in {"a@x.com", "A@x.com", "b@x.com"}
NotEmpty(s) == s # "" /\ s # Undefined

----------------------------------------------------------------------------
(* Tokens *)

JwtSecret == "JWT_SECRET"

\* HMAC of a payload under a key: equal exactly for equal key and payload
Mac(key, userId, role, iat, exp) == <<key, userId, role, iat, exp>>

\* jwt.sign(payload, key, {expiresIn: '1h'}) at time now
JwtSignWith(key, userId, role, now) ==
  [userId |-> userId, role |-> role, iat |-> now, exp |-> now + TokenTTL,
   sig |-> Mac(key, userId, role, now, now + TokenTTL)]

JwtSign(userId, role, now) == JwtSignWith(JwtSecret, userId, role, now)

\* The empty string where a token is expected
EmptyToken == [userId |-> 0, role |-> Undefined, iat |-> 0, exp |-> 0, sig |-> <<>>]

\* jwt.verify with ignoreExpiration
JwtVerifiesIgnoringExpiry(t, now) ==
  t.sig = Mac(JwtSecret, t.userId, t.role, t.iat, t.exp)

\* jwt.verify(token, process.env.JWT_SECRET) at time now: does it return?
JwtVerifies(t, now) ==
  /\ t.sig = Mac(JwtSecret, t.userId, t.role, t.iat, t.exp)
  /\ now < t.exp

\* The decoded payload jwt.verify returns
Decoded(t) ==
  [attached |-> TRUE, userId |-> t.userId, role |-> t.role, iat |-> t.iat, exp |-> t.exp]

\* req.user before any middleware has set it
NoUser == [attached |-> FALSE, userId |-> 0, role |-> Undefined, iat |-> 0, exp |-> 0]

\* The tokens a client keeps: the first MaxTokens issued
Keep(t) == IF Cardinality(tokens) < MaxTokens THEN tokens \cup {t} ELSE tokens

----------------------------------------------------------------------------
(* Responses *)

NoUserOut == [id |-> 0, name |-> Undefined, email |-> Undefined, role |-> Undefined]

\* A salary as a request carries it: missing, a number, the decimal string of
\* a number, or a string that is no number
NoSalary == [kind |-> "undefined", n |-> 0]
Num(n) == [kind |-> "number", n |-> n]
NumStr(n) == [kind |-> "string", n |-> n]
NotNumeric == [kind |-> "string", n |-> -1]

\* No job document
NoJob ==
  [id |-> 0, live |-> FALSE, title |-> Undefined, company |-> Undefined,
   description |-> Undefined, location |-> Undefined, salary |-> NoSalary,
   user |-> 0, createdAt |-> 0]

\* A number in a JSON body; JSON.stringify writes NaN and Infinity as null
JsonNull == [kind |-> "null", n |-> 0]

EmptyBody ==
  [success |-> Undefined, message |-> Undefined, msg |-> Undefined,
   token |-> EmptyToken, user |-> NoUserOut, hello |-> 0, job |-> NoJob,
   jobs |-> <<>>, total |-> JsonNull, page |-> JsonNull, totalPages |-> JsonNull]

CustomError(message, statusCode) == [message |-> message, statusCode |-> statusCode]

\* An error thrown by a library: it carries no statusCode
ThrownError(message) == [message |-> message, statusCode |-> 0]

\* middleware/errorHandler.js
ErrorHandler(err) ==
  [status |-> IF err.statusCode = 0 THEN 500 ELSE err.statusCode,
   via    |-> "errorHandler",
   body   |-> [EmptyBody EXCEPT
                 !.success = "false",
                 !.message = IF err.message = ""
                             THEN "Something went wrong on the server!"
                             ELSE err.message]]

\* res.status(s).json(body)
Json(status, body) == [status |-> status, via |-> "handler", body |-> body]

\* What `last` records of a completed request: the request, the time and the
\* numbers of user and job documents inserted when its handler ran, req.user, the route handler
\* that ran ("none" when a middleware ended the request) and the response
Completed(route, req, ctx, ran, resp) ==
  [route |-> route, req |-> req, at |-> clock, usersBefore |-> Len(users),
   jobsBefore |-> Len(jobs), ctx |-> ctx, ran |-> ran,
   status |-> resp.status, via |-> resp.via, body |-> resp.body]

NoRequest ==
  [route |-> "none", req |-> [none |-> TRUE], at |-> 0, usersBefore |-> 0,
   jobsBefore |-> 0, ctx |-> NoUser, ran |-> "none",
   status |-> 0, via |-> "none", body |-> EmptyBody]

----------------------------------------------------------------------------
(* The users collection *)

\* User.findOne({ email }): the filter is cast through the schema, so the
\* address is lowercased as it is on write; 0 when no document matches
FindUserByEmail(e) ==
  LET m == {i \in 1..Len(users) : users[i].email = Lower(e)}
  IN  IF m = {} THEN 0 ELSE CHOOSE i \in m : \A j \in m : i <= j

\* The _id of the next document: ids are never used again, also after the
\* documents are deleted
NextUserId == Cardinality(signedUp) + 1

\* new User({...}): schema setters and defaults
NewUser(name, email, password, role) ==
  [id |-> NextUserId, name |-> name, email |-> Lower(email),
   password |-> password,
   role |-> IF role = Undefined THEN "candidate" ELSE role]

\* A save hook that leaves the password as it was given
PreSaveUnhashed(doc, salt) == doc

\* UserSchema.pre('save'): a new document's password is always modified
PreSave(doc, salt) == [doc EXCEPT !.password = BcryptHash(doc.password, salt)]

\* The collection without the unique index
NoIndexAccepts(doc) == TRUE

\* The unique index on email accepts the insert
UniqueIndexAccepts(doc) == \A i \in 1..Len(users) : users[i].email # doc.email

\* Prevent users from signing up as admin directly
AssignedRole(role) == IF role \in {"candidate", "recruiter"} THEN role ELSE "candidate"

----------------------------------------------------------------------------
(* POST /api/auth/signup *)

SignupValid(b) ==
  /\ NotEmpty(b.name)
  /\ IsEmail(b.email)
  /\ PasswordLength(b.password) >= MinPasswordLength

\* The handler up to its first await: validation and the duplicate lookup
SignupStart(b) ==
  /\ UNCHANGED <<authVersion, jobsVersion, seeding, seed, listing, users, signedUp, tokens, clock, jobs, editing>>
  /\ IF ~SignupValid(b)
     THEN /\ last' = Completed("signup", b, NoUser, "signup",
                               ErrorHandler(CustomError("Validation failed", 400)))
          /\ UNCHANGED pending
     ELSE IF FindUserByEmail(b.email) # 0
     THEN /\ last' = Completed("signup", b, NoUser, "signup",
                               ErrorHandler(CustomError("User already exists", 400)))
          /\ UNCHANGED pending
     ELSE /\ BagCardinality(pending) < MaxInflight
          /\ pending' = pending (+) SetToBag({b})
          /\ UNCHANGED last

\* The document the handler builds and saves
SignupDocument(r, s1, s2) ==
  IF authVersion = "msg"
  THEN PreSave(NewUser(r.name, r.email,
                       BcryptHash(r.password, s1), Undefined), s2)
  ELSE PreSave(NewUser(r.name, r.email, r.password,
                       AssignedRole(r.role)), s2)

SignupCreated(r, doc) ==
  IF authVersion = "msg"
  THEN Json(201, [EmptyBody EXCEPT !.msg = "User registered successfully"])
  ELSE Json(201, [EmptyBody EXCEPT
                    !.token = JwtSign(doc.id, doc.role, clock),
                    !.user = [id |-> doc.id, name |-> doc.name,
                              email |-> doc.email, role |-> doc.role]])

\* The rest of the handler: hashing, newUser.save() and the response
SignupSave(r, s1, s2) ==
  /\ BagIn(r, pending)
  /\ pending' = pending (-) SetToBag({r})
  /\ UNCHANGED <<authVersion, jobsVersion, seeding, seed, listing, clock, jobs, editing>>
  /\ LET doc == SignupDocument(r, s1, s2) IN
     IF UniqueIndexAccepts(doc)
     THEN /\ Len(users) < MaxUsers
          /\ users' = Append(users, doc)
          /\ signedUp' = signedUp \cup
               {[id |-> doc.id, by |-> "signup", password |-> r.password,
                 role |-> doc.role]}
          /\ tokens' = IF authVersion = "msg" THEN tokens
                       ELSE Keep(JwtSign(doc.id, doc.role, clock))
          /\ last' = Completed("signup", r, NoUser, "signup",
                               SignupCreated(r, doc))
     ELSE /\ UNCHANGED <<users, signedUp, tokens>>
          /\ last' = Completed("signup", r, NoUser, "signup",
                               ErrorHandler(ThrownError("E11000 duplicate key error")))

----------------------------------------------------------------------------
(* POST /api/auth/login *)

LoginToken(v, user) ==
  JwtSign(user.id, IF v = "msg" THEN Undefined ELSE user.role, clock)

LoginOk(v, user) ==
  Json(200, [EmptyBody EXCEPT
               !.token = LoginToken(v, user),
               !.user = [id |-> user.id, name |-> user.name, email |-> user.email,
                         role |-> IF v = "msg" THEN Undefined ELSE user.role]])

\* The response for a lookup that found no user
LoginUnknown == ErrorHandler(CustomError("Invalid credentials", 400))

\* The response for a password that does not match
LoginMismatch == ErrorHandler(CustomError("Invalid credentials", 400))

LoginResponse(v, b) ==
  LET i == FindUserByEmail(b.email) IN
  IF i = 0 THEN LoginUnknown
  ELSE IF b.password = NoPassword
  THEN ErrorHandler(ThrownError("Illegal arguments: undefined, string"))
  ELSE IF ~BcryptCompare(b.password, users[i].password) THEN LoginMismatch
  ELSE LoginOk(v, users[i])

Login(b) ==
  LET resp == LoginResponse(authVersion, b) IN
  /\ last' = Completed("login", b, NoUser, "login", resp)
  /\ tokens' = IF resp.status = 200 THEN Keep(resp.body.token) ELSE tokens
  /\ UNCHANGED <<authVersion, jobsVersion, seeding, seed, listing, users, pending, signedUp, clock, jobs, editing>>

----------------------------------------------------------------------------
(* scripts/seedUsers.js *)

SeedData ==
  <<[name |-> "Alice Johnson", email |-> "alice@example.com", password |-> Plain("password123")],
    [name |-> "Bob Smith", email |-> "bob@example.com", password |-> Plain("password123")],
    [name |-> "Charlie Brown", email |-> "charlie@example.com", password |-> Plain("password123")]>>

\* users.map(async (user) => ({ ...user, password: await bcrypt.hash(user.password, 10) }))
HashedSeed(salts) ==
  [i \in 1..Len(SeedData) |->
     [SeedData[i] EXCEPT !.password = BcryptHash(SeedData[i].password, salts[i])]]

\* The script is not running; runs counts the runs started
Idle(runs) == [at |-> "idle", runs |-> runs, docs |-> <<>>]

\* await User.deleteMany({})
SeedDeleteMany ==
  /\ seed.at = "idle"
  /\ seed.runs < MaxSeeds
  /\ users' = <<>>
  /\ seed' = [at |-> "cleared", runs |-> seed.runs + 1, docs |-> <<>>]
  /\ UNCHANGED <<authVersion, jobsVersion, seeding, pending, signedUp, tokens, clock, jobs,
                 editing, listing, last>>

\* await Promise.all(users.map(...)): the hashing
SeedHash(salts) ==
  /\ seed.at = "cleared"
  /\ seed' = [seed EXCEPT !.at = "hashed", !.docs = HashedSeed(salts)]
  /\ UNCHANGED <<authVersion, jobsVersion, seeding, users, pending, signedUp, tokens, clock,
                 jobs, editing, listing, last>>

\* The documents of docs that an ordered insertMany inserts: those before the
\* first one the unique index refuses
RECURSIVE Accepted(_, _)
Accepted(docs, emails) ==
  IF docs = <<>> \/ Lower(Head(docs).email) \in emails THEN <<>>
  ELSE <<Head(docs)>> \o Accepted(Tail(docs), emails \cup {Lower(Head(docs).email)})

\* The documents insertMany stores for docs, the first with the id first:
\* insertMany applies the schema's setters and defaults and runs no save hook
SeedUserDocs(docs, first) ==
  [k \in 1..Len(docs) |->
     [id |-> first + k - 1, name |-> docs[k].name,
      email |-> Lower(docs[k].email), password |-> docs[k].password,
      role |-> "candidate"]]

\* The users the script created, with the passwords it was given
SeedSignups(new) ==
  {[id |-> new[k].id, by |-> "seed", password |-> SeedData[k].password,
    role |-> new[k].role] : k \in 1..Len(new)}

\* await User.insertMany(hashedUsers)
SeedInsertMany ==
  LET docs == Accepted(seed.docs, {users[i].email : i \in 1..Len(users)})
      new == SeedUserDocs(docs, NextUserId)
  IN  /\ seed.at = "hashed"
      /\ users' = users \o new
      /\ signedUp' = signedUp \cup SeedSignups(new)
      /\ seed' = Idle(seed.runs)
      /\ UNCHANGED <<authVersion, jobsVersion, seeding, pending, tokens, clock, jobs, editing,
                     listing, last>>

----------------------------------------------------------------------------
(* middleware/auth.js *)

\* An Authorization header is the scheme followed by space-separated fields:
\* scheme "Bearer" with args <<t>> is the string "Bearer <t>", and with no
\* args the string "Bearer".  NoHeader is the header not sent.
NoHeader == [scheme |-> "", args |-> <<>>]

Bearer(t) == [scheme |-> "Bearer", args |-> <<t>>]

\* !authHeader || !authHeader.startsWith('Bearer ')
LacksBearer(h) == h = NoHeader \/ ~(h.scheme = "Bearer" /\ Len(h.args) >= 1)

\* authHeader.split(' ')[1]
HeaderToken(h) == h.args[1]

NoTokenResponse == Json(401, [EmptyBody EXCEPT !.msg = "No token, authorization denied"])
BadTokenResponse == Json(401, [EmptyBody EXCEPT !.msg = "Token is not valid"])

\* authMiddleware with jwt.decode in place of jwt.verify
AuthMiddlewareDecodeOnly(h, now) ==
  IF LacksBearer(h)
  THEN [next |-> FALSE, user |-> NoUser, resp |-> NoTokenResponse]
  ELSE [next |-> TRUE, user |-> Decoded(HeaderToken(h)), resp |-> NoTokenResponse]

\* authMiddleware: either next() with req.user set, or a 401 response
AuthMiddleware(h, now) ==
  IF LacksBearer(h)
  THEN [next |-> FALSE, user |-> NoUser, resp |-> NoTokenResponse]
  ELSE IF JwtVerifies(HeaderToken(h), now)
  THEN [next |-> TRUE, user |-> Decoded(HeaderToken(h)), resp |-> NoTokenResponse]
  ELSE [next |-> FALSE, user |-> NoUser, resp |-> BadTokenResponse]

\* A request the auth middleware ended
Rejected(route, req, a) == Completed(route, req, a.user, "none", a.resp)

----------------------------------------------------------------------------
(* middleware/authorize.js *)

\* The JavaScript values the role check compares: strings, undefined, arrays
Str(s) == [type |-> "string", str |-> s, items |-> <<>>]
Arr(items) == [type |-> "array", str |-> "", items |-> items]
Undef == [type |-> "undefined", str |-> "", items |-> <<>>]

\* Array.prototype.includes compares with SameValueZero: an array literal
\* equals no other value
SameValue(a, b) == a.type = b.type /\ a.type # "array" /\ a.str = b.str

\* A membership test that lets a missing role through
IncludesOrMissing(list, x) ==
  x.type = "undefined" \/ \E i \in 1..Len(list) : SameValue(list[i], x)

Includes(list, x) == \E i \in 1..Len(list) : SameValue(list[i], x)

RoleValue(user) == IF user.role = Undefined THEN Undef ELSE Str(user.role)

\* authorize(...allowedRoles): allowedRoles is the list of the call's arguments
\* Reading req.user.role when no middleware has set req.user throws a
\* TypeError, which Express hands to the error handler
NoUserError == ThrownError("Cannot read properties of undefined (reading 'role')")

Authorize(allowedRoles, user) ==
  IF ~user.attached
  THEN [next |-> FALSE, resp |-> ErrorHandler(NoUserError)]
  ELSE IF ~Includes(allowedRoles, RoleValue(user))
  THEN [next |-> FALSE,
        resp |-> ErrorHandler(CustomError("Access denied: insufficient role", 403))]
  ELSE [next |-> TRUE, resp |-> NoTokenResponse]

\* authorizeRoles(...allowedRoles) of middleware/roleMiddleware.js: the same
\* test, answered by the middleware itself
AuthorizeRoles(allowedRoles, user) ==
  IF ~user.attached
  THEN [next |-> FALSE, resp |-> ErrorHandler(NoUserError)]
  ELSE IF ~Includes(allowedRoles, RoleValue(user))
  THEN [next |-> FALSE,
        resp |-> Json(403, [EmptyBody EXCEPT
                              !.message = "Access denied: Unauthorized role"])]
  ELSE [next |-> TRUE, resp |-> NoTokenResponse]

\* A request with req.user = user reaches a route registered behind one of the
\* two role middlewares for the roles allowedRoles
RoleCheck(gate, allowedRoles, user) ==
  LET z == IF gate = "authorize" THEN Authorize(allowedRoles, user)
           ELSE AuthorizeRoles(allowedRoles, user)
      req == [gate |-> gate, allowedRoles |-> allowedRoles]
  IN  /\ last' = IF z.next
                 THEN Completed("roleCheck", req, user, "gated", Json(200, EmptyBody))
                 ELSE Completed("roleCheck", req, user, "none", z.resp)
      /\ UNCHANGED <<authVersion, jobsVersion, seeding, seed, listing, users, pending, signedUp, tokens,
                     clock, jobs, editing>>

\* authorize(['recruiter', 'admin']): one argument, an array
CreateJobRoles == <<Arr(<<Str("recruiter"), Str("admin")>>)>>

----------------------------------------------------------------------------
(* The jobs collection: every document inserted, in insertion order; a      *)
(* deleted document stays in the sequence with live = FALSE, its _id is the *)
(* position.                                                                *)

\* Job.findOne({ _id: id }): the lookup without the owner in its filter
FindJobById(id, userId) ==
  IF id \in 1..Len(jobs) /\ jobs[id].live THEN id ELSE 0

\* Job.findOne({ _id: id, user: userId }): 0 when no document matches
FindJob(id, userId) ==
  IF id \in 1..Len(jobs) /\ jobs[id].live /\ jobs[id].user = userId THEN id ELSE 0

\* The Number a salary is cast to when the document is saved
CastSalary(s) == IF s.kind = "undefined" THEN NoSalary ELSE Num(s.n)

\* express-validator: notEmpty, isLength({ min: 10 }), isNumeric
TextLength(s) == IF s = Undefined THEN 0 ELSE Len(s)
IsNumeric(s) == s.kind # "undefined" /\ s.n >= 0

\* The rules of POST /api/jobs
CreateJobValid(b) ==
  /\ NotEmpty(b.title)
  /\ NotEmpty(b.company)
  /\ TextLength(b.description) >= MinDescriptionLength
  /\ NotEmpty(b.location)
  /\ (b.salary # NoSalary => IsNumeric(b.salary))

\* The rules of PUT /api/jobs/:id: every rule is optional()
UpdateJobValid(b) ==
  /\ (b.title # Undefined => NotEmpty(b.title))
  /\ (b.company # Undefined => NotEmpty(b.company))
  /\ (b.description # Undefined => TextLength(b.description) >= MinDescriptionLength)
  /\ (b.location # Undefined => NotEmpty(b.location))
  /\ (b.salary # NoSalary => IsNumeric(b.salary))

NotFound == ErrorHandler(CustomError("Job not found", 404))

JobRequest(h, id, b) == [header |-> h, id |-> id, body |-> b]

\* A body with none of the fields; user is 0 when the body names no user
NoJobBody ==
  [title |-> Undefined, company |-> Undefined, description |-> Undefined,
   location |-> Undefined, salary |-> NoSalary, user |-> 0]

----------------------------------------------------------------------------
(* POST /api/jobs *)

\* A document whose owner is the user the body names, when it names one
NewJobTrustingBody(b, userId) ==
  [id |-> Len(jobs) + 1, live |-> TRUE, title |-> b.title, company |-> b.company,
   description |-> b.description, location |-> b.location,
   salary |-> CastSalary(b.salary), user |-> IF b.user # 0 THEN b.user ELSE userId,
   createdAt |-> clock]

\* new Job({ title, company, description, location, salary, user: req.user.userId })
NewJob(b, userId) ==
  [id |-> Len(jobs) + 1, live |-> TRUE, title |-> b.title, company |-> b.company,
   description |-> b.description, location |-> b.location,
   salary |-> CastSalary(b.salary), user |-> userId, createdAt |-> clock]

CreateJob(h, b) ==
  LET a == AuthMiddleware(h, clock)
      z == Authorize(CreateJobRoles, a.user)
      req == JobRequest(h, 0, b)
  IN  /\ UNCHANGED <<authVersion, jobsVersion, seeding, seed, listing, users, pending, signedUp, tokens,
                     clock, editing>>
      /\ IF ~a.next
         THEN last' = Rejected("createJob", req, a) /\ UNCHANGED jobs
         ELSE IF jobsVersion = "gated" /\ ~z.next
         THEN /\ last' = Completed("createJob", req, a.user, "none", z.resp)
              /\ UNCHANGED jobs
         ELSE IF ~CreateJobValid(b)
         THEN /\ last' = Completed("createJob", req, a.user, "createJob",
                                   ErrorHandler(CustomError("Validation failed", 400)))
              /\ UNCHANGED jobs
         ELSE /\ Len(jobs) < MaxJobs
              /\ jobs' = Append(jobs, NewJob(b, a.user.userId))
              /\ last' = Completed("createJob", req, a.user, "createJob",
                            Json(201, [EmptyBody EXCEPT !.job = NewJob(b, a.user.userId)]))

----------------------------------------------------------------------------
(* scripts/seedJobs.js                                                      *)
(* A run draws SeedJobCount owners and salaries independently, more runs    *)
(* than can be enumerated: the steps of the script are defined here for    *)
(* any draws, and the specifications below, which are of the routes and of *)
(* scripts/seedUsers.js, take none of them.                                *)

\* What one pass of the loop draws: the position of the user picked among
\* those found, and the fields faker makes up
SeedDraw(owner, title, company, description, location, salary) ==
  [owner |-> owner, title |-> title, company |-> company,
   description |-> description, location |-> location, salary |-> salary]

\* The draws a run can make over found users: SeedJobCount of them, each with
\* a user among those found and a salary between the two limits
IsSeedDraws(draws, found) ==
  /\ DOMAIN draws = 1..SeedJobCount
  /\ \A i \in 1..SeedJobCount :
       /\ draws[i].owner \in 1..found
       /\ draws[i].salary \in MinSeedSalary..MaxSeedSalary

\* The script is not running; runs counts the runs started
NotSeeding(runs) == [at |-> "idle", runs |-> runs, found |-> <<>>]

\* const users = await User.find(), and the return when it finds no user
SeedJobsFind ==
  /\ seeding.at = "idle"
  /\ seeding.runs < MaxSeeds
  /\ seeding' = IF Len(users) = 0 THEN NotSeeding(seeding.runs + 1)
                ELSE [at |-> "found", runs |-> seeding.runs + 1,
                      found |-> [i \in 1..Len(users) |-> users[i].id]]
  /\ UNCHANGED <<authVersion, jobsVersion, seed, listing, users, pending, signedUp, tokens,
                 clock, jobs, editing, last>>

\* The jobs the loop makes from its draws over the users found, for a
\* collection that holds stored documents, at a time now
SeedJobDocs(stored, found, draws, now) ==
  [i \in 1..SeedJobCount |->
     [id |-> stored + i, live |-> TRUE, title |-> draws[i].title,
      company |-> draws[i].company,
      description |-> draws[i].description,
      location |-> draws[i].location,
      salary |-> Num(draws[i].salary), user |-> found[draws[i].owner],
      createdAt |-> now]]

\* The loop and await Job.insertMany(jobsToInsert): SeedJobCount new jobs, each
\* of a user picked at random among those found, appended to the collection
SeedJobsInsert(draws) ==
  /\ seeding.at = "found"
  /\ IsSeedDraws(draws, Len(seeding.found))
  /\ jobs' = jobs \o SeedJobDocs(Len(jobs), seeding.found, draws, clock)
  /\ seeding' = NotSeeding(seeding.runs)
  /\ UNCHANGED <<authVersion, jobsVersion, seed, listing, users, pending, signedUp, tokens,
                 clock, editing, last>>

----------------------------------------------------------------------------
(* GET /api/jobs/:id *)

GetJob(h, id) ==
  LET a == AuthMiddleware(h, clock)
      req == JobRequest(h, id, NoJobBody)
      j == FindJob(id, a.user.userId)
  IN  /\ UNCHANGED <<authVersion, jobsVersion, seeding, seed, listing, users, pending, signedUp, tokens,
                     clock, jobs, editing>>
      /\ last' = IF ~a.next THEN Rejected("getJob", req, a)
                 ELSE IF j = 0 THEN Completed("getJob", req, a.user, "getJob", NotFound)
                 ELSE Completed("getJob", req, a.user, "getJob",
                                Json(200, [EmptyBody EXCEPT !.job = jobs[j]]))

----------------------------------------------------------------------------
(* PUT /api/jobs/:id *)

\* a ?? b and a || b on the values a request field can hold
Nullish(x) == x = Undefined
Falsy(x) == x = Undefined \/ x = ""
NullishSalary(s) == s.kind = "undefined"
FalsySalary(s) == s.kind = "undefined" \/ (s.kind = "number" /\ s.n = 0)

\* The assignments of the handler, on the document it loaded
Assigned(doc, b) ==
  IF jobsVersion = "gated"
  THEN [doc EXCEPT
          !.title = IF Nullish(b.title) THEN @ ELSE b.title,
          !.company = IF Nullish(b.company) THEN @ ELSE b.company,
          !.description = IF Nullish(b.description) THEN @ ELSE b.description,
          !.location = IF Nullish(b.location) THEN @ ELSE b.location,
          !.salary = IF NullishSalary(b.salary) THEN @ ELSE CastSalary(b.salary)]
  ELSE [doc EXCEPT
          !.title = IF Falsy(b.title) THEN @ ELSE b.title,
          !.company = IF Falsy(b.company) THEN @ ELSE b.company,
          !.description = IF Falsy(b.description) THEN @ ELSE b.description,
          !.location = IF Falsy(b.location) THEN @ ELSE b.location,
          !.salary = IF FalsySalary(b.salary) THEN @ ELSE CastSalary(b.salary)]

\* The handler up to job.save(): the auth middleware, validation, the scoped
\* lookup and the assignments
PutStart(h, id, b) ==
  LET a == AuthMiddleware(h, clock)
      req == JobRequest(h, id, b)
      j == FindJob(id, a.user.userId)
  IN  /\ UNCHANGED <<authVersion, jobsVersion, seeding, seed, listing, users, pending, signedUp, tokens,
                     clock, jobs>>
      /\ IF ~a.next
         THEN last' = Rejected("putJob", req, a) /\ UNCHANGED editing
         ELSE IF ~UpdateJobValid(b)
         THEN /\ last' = Completed("putJob", req, a.user, "putJob",
                                   ErrorHandler(CustomError("Validation failed", 400)))
              /\ UNCHANGED editing
         ELSE IF j = 0
         THEN /\ last' = Completed("putJob", req, a.user, "putJob", NotFound)
              /\ UNCHANGED editing
         ELSE /\ BagCardinality(editing) < MaxInflight
              /\ editing' = editing (+) SetToBag({[req |-> req, user |-> a.user,
                                                   loaded |-> jobs[j],
                                                   doc |-> Assigned(jobs[j], b)]})
              /\ UNCHANGED last

JobFields == {"title", "company", "description", "location", "salary"}

\* job.save() on a loaded document writes the paths whose value changed
Saved(stored, e) ==
  [f \in DOMAIN stored |->
     IF f \in JobFields /\ e.doc[f] # e.loaded[f] THEN e.doc[f] ELSE stored[f]]

\* job.save() and the response; save() of a document that is no longer stored
\* rejects with DocumentNotFoundError
PutSave(e) ==
  /\ BagIn(e, editing)
  /\ editing' = editing (-) SetToBag({e})
  /\ UNCHANGED <<authVersion, jobsVersion, seeding, seed, listing, users, pending, signedUp, tokens, clock>>
  /\ IF jobs[e.doc.id].live
     THEN /\ jobs' = [jobs EXCEPT ![e.doc.id] = Saved(@, e)]
          /\ last' = Completed("putJob", e.req, e.user, "putJob",
                               Json(200, [EmptyBody EXCEPT !.job = e.doc]))
     ELSE /\ UNCHANGED jobs
          /\ last' = Completed("putJob", e.req, e.user, "putJob",
                               ErrorHandler(ThrownError("No document found for query")))

----------------------------------------------------------------------------
(* DELETE /api/jobs/:id *)

DeleteJob(h, id) ==
  LET a == AuthMiddleware(h, clock)
      req == JobRequest(h, id, NoJobBody)
      j == FindJob(id, a.user.userId)
  IN  /\ UNCHANGED <<authVersion, jobsVersion, seeding, seed, listing, users, pending, signedUp, tokens,
                     clock, editing>>
      /\ IF ~a.next
         THEN last' = Rejected("deleteJob", req, a) /\ UNCHANGED jobs
         ELSE IF j = 0
         THEN /\ last' = Completed("deleteJob", req, a.user, "deleteJob", NotFound)
              /\ UNCHANGED jobs
         ELSE /\ jobs' = [jobs EXCEPT ![j].live = FALSE]
              /\ last' = Completed("deleteJob", req, a.user, "deleteJob",
                            Json(200, [EmptyBody EXCEPT !.msg = "Job deleted successfully"]))

----------------------------------------------------------------------------
(* GET /api/jobs *)

\* A query parameter that is not sent; one that is sent is the decimal string
\* of a number
NoParam == [kind |-> "undefined", n |-> 0]

\* parseInt(p, 10) of a parameter, or of the default that the destructuring
\* puts in its place
ParseInt(p, default) == IF p.kind = "undefined" THEN default ELSE p.n

NoQuery ==
  [page |-> NoParam, limit |-> NoParam, search |-> "", company |-> Undefined,
   location |-> Undefined]

\* { $regex: pattern, $options: 'i' } on the patterns and the texts in use:
\* the pattern occurs in the text, whatever the case of the letters
RegexMatches(pattern, text) ==
  <<pattern, text>> \in
    {<<"eng", "Engineer">>, <<"things", "Builds things">>, <<"things", "Draws things">>,
     <<"acme", "Acme">>, <<"pune", "Pune">>}

\* The filter of the query without the owner
MatchingAnyOwner(userId, q) ==
  {i \in 1..Len(jobs) :
     /\ jobs[i].live
     /\ (~Falsy(q.search) =>
           \/ RegexMatches(q.search, jobs[i].title)
           \/ RegexMatches(q.search, jobs[i].description))
     /\ (~Falsy(q.company) => RegexMatches(q.company, jobs[i].company))
     /\ (~Falsy(q.location) => RegexMatches(q.location, jobs[i].location))}

\* The documents the query { user, $or, company, location } matches
Matching(userId, q) ==
  {i \in 1..Len(jobs) :
     /\ jobs[i].live
     /\ jobs[i].user = userId
     /\ (~Falsy(q.search) =>
           \/ RegexMatches(q.search, jobs[i].title)
           \/ RegexMatches(q.search, jobs[i].description))
     /\ (~Falsy(q.company) => RegexMatches(q.company, jobs[i].company))
     /\ (~Falsy(q.location) => RegexMatches(q.location, jobs[i].location))}

\* .sort({ createdAt: -1 }): the orders of the documents m with the newest
\* first; documents created at the same instant come in any order
NewestFirst(m) ==
  {o \in [1..Cardinality(m) -> m] :
     /\ \A i, j \in 1..Cardinality(m) : i # j => o[i] # o[j]
     /\ \A i, j \in 1..Cardinality(m) :
          i < j => jobs[o[i]].createdAt >= jobs[o[j]].createdAt}

\* .skip(skip).limit(limitNumber); limit(0) sets no limit
SkipLimit(o, skip, limitNumber) ==
  LET n == Len(o)
      to == IF limitNumber = 0 \/ skip + limitNumber > n THEN n ELSE skip + limitNumber
  IN  [k \in 1..(IF to > skip THEN to - skip ELSE 0) |-> jobs[o[skip + k]]]

\* Math.ceil(totalJobs / limitNumber) as JSON: a division by 0 gives NaN or
\* Infinity
TotalPages(totalJobs, limitNumber) ==
  IF limitNumber = 0 THEN JsonNull
  ELSE Num((totalJobs + limitNumber - 1) \div limitNumber)

ListRequest(h, q) == [header |-> h, query |-> q]

\* The handler up to the answer of await Job.countDocuments(query)
ListCount(h, q) ==
  LET a == AuthMiddleware(h, clock)
      req == ListRequest(h, q)
  IN  /\ UNCHANGED <<authVersion, jobsVersion, seeding, seed, users, pending, signedUp, tokens,
                     clock, jobs, editing>>
      /\ IF ~a.next
         THEN last' = Rejected("listJobs", req, a) /\ UNCHANGED listing
         ELSE /\ BagCardinality(listing) < MaxListing
              /\ listing' = listing (+) SetToBag({[req |-> req, user |-> a.user,
                               totalJobs |-> Cardinality(Matching(a.user.userId, q))]})
              /\ UNCHANGED last

\* await Job.find(query).sort().skip().limit(), in the order o the store
\* returns, and the response; the store refuses a negative skip
ListFind(e, o) ==
  LET q == e.req.query
      pageNumber == ParseInt(q.page, DefaultPage)
      limitNumber == ParseInt(q.limit, DefaultLimit)
      skip == (pageNumber - 1) * limitNumber
  IN  /\ BagIn(e, listing)
      /\ o \in NewestFirst(Matching(e.user.userId, q))
      /\ listing' = listing (-) SetToBag({e})
      /\ UNCHANGED <<authVersion, jobsVersion, seeding, seed, users, pending, signedUp, tokens,
                     clock, jobs, editing>>
      /\ last' = Completed("listJobs", e.req, e.user, "listJobs",
                    IF skip < 0
                    THEN ErrorHandler(ThrownError("Skip value must be non-negative"))
                    ELSE Json(200, [EmptyBody EXCEPT
                                      !.success = "true",
                                      !.total = Num(e.totalJobs),
                                      !.page = Num(pageNumber),
                                      !.totalPages = TotalPages(e.totalJobs, limitNumber),
                                      !.jobs = SkipLimit(o, skip, limitNumber)]))

----------------------------------------------------------------------------
(* GET /api/auth/protected *)

Protected(h) ==
  LET a == AuthMiddleware(h, clock)
      req == [header |-> h]
  IN  /\ last' = IF a.next
                 THEN Completed("protected", req, a.user, "protected",
                        Json(200, [EmptyBody EXCEPT
                                     !.msg = "Hello ${req.user.userId}, you're authorized!",
                                     !.hello = a.user.userId]))
                 ELSE Rejected("protected", req, a)
      /\ UNCHANGED <<authVersion, jobsVersion, seeding, seed, listing, users, pending, signedUp, tokens,
                     clock, jobs, editing>>

----------------------------------------------------------------------------
(* Time *)

\* The instants the model observes: around a token's issue and around its expiry
Instants == (0..MaxSkew) \cup ((TokenTTL - 1)..(TokenTTL + MaxSkew))

Tick(t) ==
  /\ t \in Instants
  /\ t > clock
  /\ clock' = t
  /\ UNCHANGED <<authVersion, jobsVersion, seeding, seed, listing, users, pending, signedUp, tokens,
                 jobs, editing, last>>

----------------------------------------------------------------------------
(* Inputs *)

AuthVersions == {"msg", "token"}
JobsVersions == {"gated", "open"}

Body(name, email, password, role) ==
  [name |-> name, email |-> email, password |-> password, role |-> role]

\* One body for each validation rule that can fail
InvalidSignupBodies ==
  {Body("", "a@x.com", Plain("secret1"), Undefined),
   Body("Al", "nope", Plain("secret1"), Undefined),
   Body("Al", "a@x.com", Plain("abc"), Undefined),
   Body("Al", "a@x.com", NoPassword, Undefined)}

\* The sign-ups a client sends: both roles the form offers, a role it does
\* not offer, no role, an address differing only in case, a second password
Recruiter == Body("Al", "a@x.com", Plain("secret1"), "recruiter")
Candidate == Body("Al", "b@x.com", Plain("secret1"), Undefined)

SignupBodies ==
  {Recruiter, Candidate,
   Body("Al", "A@x.com", Plain("secret2"), "admin"),
   Body("Al", "a@x.com", Plain("secret2"), "candidate"),
   Body("Al", "b@x.com", Plain("secret2"), "recruiter")}
  \cup InvalidSignupBodies

LoginBodies ==
  [email : {"a@x.com", "A@x.com", "b@x.com"},
   password : {Plain("secret1"), Plain("secret2"), NoPassword}]

\* What a client can put in the Authorization header: a token it holds, that
\* token with its payload altered, a token signed with a key of its own, the
\* empty string
Altered(t) == {[t EXCEPT !.role = "admin"], [t EXCEPT !.exp = t.exp + TokenTTL]} \ {t}

Forged(t) == JwtSignWith("guess", t.userId, t.role, t.iat)

Headers ==
  {NoHeader, [scheme |-> "Bearer", args |-> <<>>], Bearer(EmptyToken)}
  \cup {Bearer(t) : t \in tokens}
  \cup {[scheme |-> "Basic", args |-> <<t>>] : t \in tokens}
  \cup {[scheme |-> "bearer", args |-> <<t>>] : t \in tokens}
  \cup {Bearer(u) : u \in UNION {Altered(t) : t \in tokens}}
  \cup {Bearer(Forged(t)) : t \in tokens}

----------------------------------------------------------------------------
Init ==
  /\ authVersion \in AuthVersions
  /\ jobsVersion \in JobsVersions
  /\ users = <<>>
  /\ pending = EmptyBag
  /\ signedUp = {}
  /\ tokens = {}
  /\ clock = 0
  /\ jobs = <<>>
  /\ editing = EmptyBag
  /\ listing = EmptyBag
  /\ seed = Idle(0)
  /\ seeding = NotSeeding(0)
  /\ last = NoRequest

\* The auth routes do not depend on the version of the job routes
InitAuth == Init /\ jobsVersion = "open"

(* Signup *)

Next ==
  \/ \E b \in SignupBodies : SignupStart(b)
  \/ \E r \in BagToSet(pending) : SignupSave(r, "salt1", "salt2")

Spec == InitAuth /\ [][Next]_vars

(* Signup, then login *)

LoginSignupBodies ==
  [name : {"Al"}, email : {"a@x.com", "b@x.com"},
   password : {Plain("secret1"), Plain("secret2")}, role : {Undefined, "recruiter"}]

NextLogin ==
  \/ \E b \in LoginSignupBodies : SignupStart(b)
  \/ \E r \in BagToSet(pending), s1, s2 \in Salts : SignupSave(r, s1, s2)
  \/ \E b \in LoginBodies : Login(b)

SpecLogin == InitAuth /\ [][NextLogin]_vars

(* Tokens and the auth middleware *)

GateSignupBodies ==
  [name : {"Al"}, email : {"a@x.com"}, password : {Plain("secret1")},
   role : {Undefined, "recruiter"}]

GateLoginBodies ==
  {[email |-> "a@x.com", password |-> Plain("secret1")],
   [email |-> "alice@example.com", password |-> Plain("password123")]}

SeedSalts == <<"salt1", "salt2", "salt1">>

NextGate ==
  \/ \E b \in GateSignupBodies : SignupStart(b)
  \/ \E r \in BagToSet(pending) : SignupSave(r, "salt1", "salt2")
  \/ \E b \in GateLoginBodies : Login(b)
  \/ SeedDeleteMany
  \/ SeedHash(SeedSalts)
  \/ SeedInsertMany
  \/ \E h \in Headers : Protected(h)
  \/ \E t \in Instants : Tick(t)

SpecGate == InitAuth /\ [][NextGate]_vars

(* The job routes, on a server of the "token" version where a recruiter and *)
(* a candidate have signed up                                               *)

StoredUser(id, b) ==
  [id |-> id, name |-> b.name, email |-> b.email,
   password |-> BcryptHash(b.password, "salt2"), role |-> AssignedRole(b.role)]

\* The users the two signups stored, and the record of them
TwoUsers == <<StoredUser(1, Recruiter), StoredUser(2, Candidate)>>

TwoSignups ==
  {[id |-> 1, by |-> "signup", password |-> Recruiter.password, role |-> "recruiter"],
   [id |-> 2, by |-> "signup", password |-> Candidate.password, role |-> "candidate"]}

\* The state after the two signups
SignedUp ==
  /\ authVersion = "token"
  /\ users = TwoUsers
  /\ pending = EmptyBag
  /\ signedUp = TwoSignups
  /\ tokens = {JwtSign(1, "recruiter", 0), JwtSign(2, "candidate", 0)}
  /\ clock = 0
  /\ jobs = <<>>
  /\ editing = EmptyBag
  /\ listing = EmptyBag
  /\ seed = Idle(0)
  /\ seeding = NotSeeding(0)
  /\ last = [route |-> "signup", req |-> Candidate, at |-> 0, usersBefore |-> 1,
             jobsBefore |-> 0, ctx |-> NoUser, ran |-> "signup", status |-> 201, via |-> "handler",
             body |-> [EmptyBody EXCEPT
                         !.token = JwtSign(2, "candidate", 0),
                         !.user = [id |-> 2, name |-> "Al", email |-> "b@x.com",
                                   role |-> "candidate"]]]

InitJobs == jobsVersion \in JobsVersions /\ SignedUp

JobHeaders == {NoHeader} \cup {Bearer(t) : t \in tokens}

TokenHeaders == {Bearer(t) : t \in tokens}

ValidJobBody ==
  [title |-> "Engineer", company |-> "Acme", description |-> "Builds things",
   location |-> "Pune", salary |-> Num(50000), user |-> 0]

CreateBodies == {ValidJobBody, [ValidJobBody EXCEPT !.description = "short"]}

UpdateBodies == {[NoJobBody EXCEPT !.title = "Lead"], [NoJobBody EXCEPT !.title = ""]}

\* The ids a request names: those of the documents inserted and one more
JobIds == 1..(Len(jobs) + 1)

NextJobs ==
  \/ \E h \in JobHeaders, b \in CreateBodies : CreateJob(h, b)
  \/ \E h \in JobHeaders, id \in JobIds : GetJob(h, id)
  \/ \E h \in JobHeaders, id \in JobIds, b \in UpdateBodies : PutStart(h, id, b)
  \/ \E e \in BagToSet(editing) : PutSave(e)
  \/ \E h \in JobHeaders, id \in JobIds : DeleteJob(h, id)

SpecJobs == InitJobs /\ [][NextJobs]_vars

(* Updates and deletes racing on the same jobs, with bodies that name an     *)
(* owner                                                                    *)

\* A new job's body names the second user
OwnerCreateBodies == {[ValidJobBody EXCEPT !.user = 2]}

OwnerUpdateBodies ==
  {[NoJobBody EXCEPT !.title = "Lead", !.user = 2],
   [NoJobBody EXCEPT !.salary = Num(0)]}

NextPut ==
  \/ \E h \in TokenHeaders, b \in OwnerCreateBodies : CreateJob(h, b)
  \/ \E h \in TokenHeaders, id \in JobIds, b \in OwnerUpdateBodies : PutStart(h, id, b)
  \/ \E e \in BagToSet(editing) : PutSave(e)
  \/ \E h \in TokenHeaders, id \in JobIds : DeleteJob(h, id)

SpecPut == InitJobs /\ [][NextPut]_vars

(* The role middlewares: behind the tokens the two logins issue, and with    *)
(* req.user as any middleware or none before them leaves it                 *)

RoleGates == {"authorize", "authorizeRoles"}

AllowedRolesLists ==
  {<<Str("recruiter"), Str("admin")>>, <<Str("candidate")>>, <<Str("admin")>>,
   CreateJobRoles}

Contexts == {NoUser} \cup {Decoded(t) : t \in tokens}

NextRole ==
  \/ \E b \in GateSignupBodies : SignupStart(b)
  \/ \E r \in BagToSet(pending) : SignupSave(r, "salt1", "salt2")
  \/ \E b \in GateLoginBodies : Login(b)
  \/ SeedDeleteMany
  \/ SeedHash(SeedSalts)
  \/ SeedInsertMany
  \/ \E g \in RoleGates, l \in AllowedRolesLists, u \in Contexts : RoleCheck(g, l, u)
  \/ \E t \in tokens : CreateJob(Bearer(t), ValidJobBody)

SpecRole == Init /\ [][NextRole]_vars

(* The list of jobs, on the same server *)

SecondJobBody ==
  [title |-> "Designer", company |-> "Bolt", description |-> "Draws things",
   location |-> "Pune", salary |-> NoSalary, user |-> 0]

ListCreateBodies == {ValidJobBody, SecondJobBody}

\* Every page and limit from 0 to 2 without filters, and each filter on the
\* first page
PageQueries ==
  {[NoQuery EXCEPT !.page = p, !.limit = l] :
     p \in {NoParam, NumStr(0), NumStr(1), NumStr(2)},
     l \in {NoParam, NumStr(0), NumStr(1), NumStr(2)}}

FilterQueries ==
  {[NoQuery EXCEPT !.search = "eng"], [NoQuery EXCEPT !.search = "things"],
   [NoQuery EXCEPT !.search = "zzz"], [NoQuery EXCEPT !.company = "acme"],
   [NoQuery EXCEPT !.location = "pune", !.company = ""]}

ListInstants == 1..MaxSkew

NextList ==
  \/ \E h \in TokenHeaders, b \in ListCreateBodies : CreateJob(h, b)
  \/ \E h \in JobHeaders, q \in {NoQuery} \cup FilterQueries : ListCount(h, q)
  \/ \E e \in BagToSet(listing) :
       \E o \in NewestFirst(Matching(e.user.userId, e.req.query)) : ListFind(e, o)
  \/ \E h \in TokenHeaders, id \in JobIds : DeleteJob(h, id)

SpecList == InitJobs /\ [][NextList]_vars

(* The pages of the list, over jobs created at different instants *)

NextPage ==
  \/ \E h \in TokenHeaders : CreateJob(h, ValidJobBody)
  \/ \E h \in TokenHeaders, q \in PageQueries : ListCount(h, q)
  \/ \E e \in BagToSet(listing) :
       \E o \in NewestFirst(Matching(e.user.userId, e.req.query)) : ListFind(e, o)
  \/ \E t \in ListInstants : Tick(t)

SpecPage == InitJobs /\ [][NextPage]_vars


----------------------------------------------------------------------------
(* Properties *)

\* C1: behind the role check of POST /api/jobs, registered for recruiter and
\* admin, a verified request reaches the handler exactly when its role is one
\* of the two, and a candidate is answered 403.
C1_RoleGate ==
  (jobsVersion = "gated" /\ last.route = "createJob" /\ last.ctx.attached) =>
    /\ (last.ran = "createJob") <=> (last.ctx.role \in {"recruiter", "admin"})
    /\ last.ctx.role = "candidate" => last.status = 403

\* The user a login request named, if it was registered when the request ran
LoginSubject ==
  LET i == FindUserByEmail(last.req.email)
  IN  IF i # 0 /\ i <= last.usersBefore THEN users[i].id ELSE 0

\* C2: for every signup that succeeded with (email, password), a later login
\* with that email and that password answers 200 with a token, and a login
\* with that email and another password answers 400 Invalid credentials.
C2_LoginAfterSignup ==
  (last.route = "login" /\ last.req.password # NoPassword /\ LoginSubject # 0) =>
    \A s \in signedUp :
      (s.id = LoginSubject /\ s.by = "signup") =>
        IF last.req.password = s.password
        THEN last.status = 200 /\ last.body.token # EmptyToken
        ELSE last.status = 400 /\ last.body.message = "Invalid credentials"

\* The address of a valid signup request was registered when it was answered
SignupOfRegistered ==
  /\ last.route = "signup"
  /\ SignupValid(last.req)
  /\ \E i \in 1..last.usersBefore : users[i].email = Lower(last.req.email)

\* C3: a signup for an email that is already registered, also one that lost
\* the race against a concurrent signup for the same email, answers 400
\* 'User already exists'.
C3_DuplicateSignupRejected ==
  SignupOfRegistered =>
    last.status = 400 /\ last.body.message = "User already exists"

\* C4: no two user documents have the same email.
C4_EmailsUnique ==
  \A i, j \in 1..Len(users) : i # j => users[i].email # users[j].email

\* Two users are stored and the unique index has just refused a third insert
C4_Witness ==
  /\ Len(users) = 2
  /\ SignupOfRegistered
  /\ last.status = 500

\* C5: a signup stores the requested role when it is recruiter or candidate
\* and candidate otherwise, and no stored user has role admin.
C5_RoleClamped ==
  /\ (last.route = "signup" /\ last.status = 201) =>
        users[last.usersBefore + 1].role =
          (IF last.req.role \in {"recruiter", "candidate"} THEN last.req.role
           ELSE "candidate")
  /\ \A i \in 1..Len(users) : users[i].role # "admin"

\* The last request went through the auth middleware carrying a token the
\* server issued
PresentedIssued ==
  /\ last.route = "protected"
  /\ ~LacksBearer(last.req.header)
  /\ HeaderToken(last.req.header) \in tokens

\* C6: an issued token presented before its expiry verifies and attaches the
\* subject id and the role of the user it was issued for.
C6_TokenRoundTrip ==
  (PresentedIssued /\ last.at < HeaderToken(last.req.header).exp) =>
    /\ last.ran = "protected"
    /\ last.ctx.attached
    /\ last.ctx.userId = HeaderToken(last.req.header).userId
    /\ \E s \in signedUp : s.id = last.ctx.userId /\ s.role = last.ctx.role

\* C7: an issued token presented later than one hour after its issue is
\* refused with 401 and the handler behind the middleware does not run.
C7_ExpiredRejected ==
  (PresentedIssued /\ last.at > HeaderToken(last.req.header).iat + 3600) =>
    last.status = 401 /\ last.ran = "none"

C7_Witness ==
  /\ PresentedIssued
  /\ last.at > HeaderToken(last.req.header).iat + 3600
  /\ last.status = 401

\* C9: a login with a registered email and a password that is not the one
\* registered (another string, or none) gets the answer a login with an
\* unregistered email and that password gets: 400 and the same body.
C9_LoginIndistinguishable ==
  last.route = "login" =>
    LET unknown == LoginResponse(authVersion,
                     [email |-> "nobody@x.com", password |-> last.req.password])
        wrong == \A s \in signedUp : s.id = LoginSubject => s.password # last.req.password
    IN  /\ LoginSubject = 0 =>
             last.status = 400 /\ last.body.message = "Invalid credentials"
        /\ (LoginSubject # 0 /\ wrong) =>
             /\ last.status = unknown.status
             /\ last.body = unknown.body
             /\ last.status = 400

\* C10: behind the auth middleware the handler runs only for a header
\* 'Bearer <token>' whose token verifies; a missing or non-Bearer header is
\* answered 401 (no token), a token that fails verification 401 (not valid),
\* and neither attaches req.user nor reaches the handler.
C10_AuthGate ==
  last.route = "protected" =>
    LET h == last.req.header
        bearer == h.scheme = "Bearer" /\ Len(h.args) >= 1
        good == bearer /\ h.args[1] \in tokens /\ last.at < h.args[1].exp
    IN  /\ last.ran # "none" => good
        /\ ~bearer =>
             /\ last.status = 401
             /\ last.body.msg = "No token, authorization denied"
             /\ last.ran = "none"
             /\ ~last.ctx.attached
        /\ (bearer /\ ~good) =>
             /\ last.status = 401
             /\ last.body.msg = "Token is not valid"
             /\ last.ran = "none"
             /\ ~last.ctx.attached

\* A token with an altered payload was presented and refused
C10_Witness ==
  /\ last.route = "protected"
  /\ ~LacksBearer(last.req.header)
  /\ \E t \in tokens : HeaderToken(last.req.header) \in Altered(t)
  /\ last.status = 401
  /\ last.ran = "none"

\* The last request was GET, PUT or DELETE /api/jobs/:id, verified
JobByIdRequest ==
  /\ last.route \in {"getJob", "putJob", "deleteJob"}
  /\ last.ctx.attached

\* ... for a stored job that the requester does not own
NonOwnerRequest ==
  /\ JobByIdRequest
  /\ last.req.id \in 1..Len(jobs)
  /\ jobs[last.req.id].live
  /\ jobs[last.req.id].user # last.ctx.userId

\* ... for an id no job had when the request ran
MissingIdRequest ==
  /\ JobByIdRequest
  /\ last.req.id > last.jobsBefore

\* The answer that hides the job
Hidden ==
  /\ last.body.job = NoJob
  /\ IF last.route = "putJob" /\ ~UpdateJobValid(last.req.body)
     THEN last.status = 400 /\ last.body.message = "Validation failed"
     ELSE last.status = 404 /\ last.body.message = "Job not found"

\* C8 as stated: GET, PUT and DELETE /api/jobs/:id by a requester who does not
\* own the job always answer 404 'Job not found' without the job's data.
C8_NonOwnerAlwaysNotFound ==
  NonOwnerRequest =>
    /\ last.status = 404
    /\ last.body.message = "Job not found"
    /\ last.body.job = NoJob

\* C8 amended: the answer to a non-owner is the answer for an id that does not
\* exist and carries no job data: 404 'Job not found', or 400 'Validation
\* failed' for a PUT whose body fails validation.
C8_NonOwnerHidden == (NonOwnerRequest \/ MissingIdRequest) => Hidden

\* A non-owner asked for a stored job and was answered 404
C8_Witness == NonOwnerRequest /\ last.status = 404

\* C11: every request answered with a failure status, whichever stage refused
\* it, is answered by the error handler with a body {success: false, message}.
C11_UniformErrors ==
  last.status >= 400 =>
    /\ last.via = "errorHandler"
    /\ last.body.success = "false"
    /\ last.body.message # Undefined
    /\ last.body.msg = Undefined

\* The value under the bcrypt layers of a stored password
RECURSIVE Unhashed(_)
Unhashed(h) == IF IsBcryptHash(h) THEN Unhashed(SubSeq(h, 3, Len(h))) ELSE h

\* C12: the password of every stored user, created by either signup handler
\* or by the seeding script, is a bcrypt hash derived from the plaintext that
\* was submitted and is not that plaintext.
C12_PasswordsHashed ==
  \A i \in 1..Len(users) :
    \E s \in signedUp :
      /\ s.id = users[i].id
      /\ IsBcryptHash(users[i].password)
      /\ users[i].password # s.password
      /\ Unhashed(users[i].password) = s.password

\* The signup that relies on the save hook alone has stored a user
C12_Witness ==
  /\ authVersion = "token"
  /\ last.route = "signup"
  /\ last.status = 201
  /\ \E i \in 1..Len(users) :
       /\ users[i].id = last.body.user.id
       /\ users[i].password = BcryptHash(last.req.password, "salt2")

\* The step is the find of a GET /api/jobs and its response
ListStep == BagCardinality(listing') < BagCardinality(listing)

\* The jobs a user has ever owned
EverOwnedBy(u) == {i \in 1..Len(jobs) : jobs[i].user = u}

\* The jobs a user owns
OwnedBy(u) == {i \in 1..Len(jobs) : jobs[i].live /\ jobs[i].user = u}

\* C13: GET /api/jobs returns only jobs the requester owns and its total
\* counts only jobs of the requester, whatever the filters and whatever others
\* own; a requester who has created no job gets 200 with jobs = [] and
\* total = 0.
C13_ListOwnerScoped ==
  [][ListStep =>
       LET u == last'.ctx.userId
           q == last'.req.query
           own == OwnedBy(u)
           firstPages == /\ ParseInt(q.page, DefaultPage) >= 1
                         /\ ParseInt(q.limit, DefaultLimit) >= 1
       IN  /\ \A k \in 1..Len(last'.body.jobs) :
                \E i \in own : last'.body.jobs[k] = jobs[i]
           /\ last'.body.total.n <= Cardinality(EverOwnedBy(u))
           /\ (EverOwnedBy(u) = {} /\ firstPages) =>
                /\ last'.status = 200
                /\ last'.body.jobs = <<>>
                /\ last'.body.total = Num(0)]_vars

\* A list was answered with the requester's job while another user owned one
C13_Witness ==
  /\ last.route = "listJobs"
  /\ last.status = 200
  /\ Len(last.body.jobs) >= 1
  /\ \E i \in 1..last.jobsBefore : jobs[i].user # last.ctx.userId

\* C17: GET /api/jobs answers 200 for every page and limit; the jobs returned
\* are at most limit, those at positions (page-1)*limit .. page*limit-1 of the
\* requester's matching jobs, newest first, and totalPages is the ceiling of
\* total / limit.
C17_Pagination ==
  [][ListStep =>
       LET q == last'.req.query
           page == ParseInt(q.page, DefaultPage)
           limit == ParseInt(q.limit, DefaultLimit)
           m == Matching(last'.ctx.userId, q)
           first == (page - 1) * limit + 1
           end == IF page * limit > Cardinality(m) THEN Cardinality(m) ELSE page * limit
       IN  /\ last'.status = 200
           /\ last'.body.page = Num(page)
           /\ last'.body.total.kind = "number"
           /\ Len(last'.body.jobs) <= limit
           /\ \E o \in NewestFirst(m) :
                /\ Len(last'.body.jobs) = (IF end >= first THEN end - first + 1 ELSE 0)
                /\ \A k \in 1..Len(last'.body.jobs) :
                     last'.body.jobs[k] = jobs[o[first + k - 1]]
           /\ \E n \in 0..last'.body.total.n :
                /\ last'.body.totalPages = Num(n)
                /\ n * limit >= last'.body.total.n
                /\ (n - 1) * limit < last'.body.total.n]_vars

\* The last request passed through a role middleware
RoleChecked ==
  \/ last.route = "roleCheck"
  \/ last.route = "createJob" /\ jobsVersion = "gated" /\ last.ctx.attached

\* C14: a request that reaches a role middleware with no req.user, or with a
\* req.user that has no role, is refused or fails, and the handler behind the
\* middleware does not run.
C14_NoRoleNeverAllowed ==
  (RoleChecked /\ (~last.ctx.attached \/ last.ctx.role = Undefined)) =>
    /\ last.ran = "none"
    /\ last.status \in {403, 500}

\* A token of the login that signs only the user id was refused 403 by the
\* role check of POST /api/jobs
C14_Witness ==
  /\ last.route = "createJob"
  /\ jobsVersion = "gated"
  /\ last.ctx.attached
  /\ last.ctx.role = Undefined
  /\ last.ran = "none"
  /\ last.status = 403

\* The step is the job.save() of a PUT and its response
PutStep == BagCardinality(editing') < BagCardinality(editing)

\* C15: after a PUT /api/jobs/:id that answers 200, every field the body
\* carries (a salary of 0 too) has the value sent, and every field it does not
\* carry, the owner and the id are as they were.
C15_UpdatesProvidedFields ==
  [][(PutStep /\ last'.status = 200) =>
       LET id == last'.req.id
           b == last'.req.body
       IN  /\ \A f \in {"title", "company", "description", "location"} :
                jobs'[id][f] = (IF b[f] # Undefined THEN b[f] ELSE jobs[id][f])
           /\ jobs'[id].salary =
                (IF b.salary # NoSalary THEN CastSalary(b.salary) ELSE jobs[id].salary)
           /\ jobs'[id].user = jobs[id].user
           /\ jobs'[id].id = jobs[id].id]_vars

\* C16: a PUT /api/jobs/:id that answers 200 with the job does so for a job
\* that is still stored and whose stored fields are the fields it returns: no
\* DELETE and no other PUT took effect between its lookup and its write.
C16_PutAtomic ==
  [][(PutStep /\ last'.status = 200) =>
       /\ jobs[last'.req.id].live
       /\ last'.body.job = jobs'[last'.req.id]]_vars

\* C18: a POST, PUT or DELETE with the token of one user leaves every job of
\* every other user as it was, and a job it creates is owned by that user,
\* whatever user the body names.
C18_OwnJobsOnly ==
  [][(last' # last /\ jobs' # jobs) =>
       LET a == last'.ctx.userId IN
       /\ last'.ctx.attached
       /\ Len(jobs') >= Len(jobs)
       /\ \A i \in 1..Len(jobs) : jobs[i].user # a => jobs'[i] = jobs[i]
       /\ \A i \in (Len(jobs) + 1)..Len(jobs') : jobs'[i].user = a]_vars

\* A user created a job with a body naming the other user, who owns a job too
C18_Witness ==
  /\ last.route = "createJob"
  /\ last.status = 201
  /\ last.req.body.user # 0
  /\ last.req.body.user # last.ctx.userId
  /\ jobs[last.jobsBefore + 1].user = last.ctx.userId
  /\ \E i \in 1..last.jobsBefore : jobs[i].user = last.req.body.user

====
